---- MODULE Spec2Model ----
(***************************************************************************)
(* A model of packages/aws-cdk-lib/aws-iam/lib/group.ts: the IAM Group     *)
(* construct (GroupBase, Group, and the imported group returned by         *)
(* Group.fromGroupArn / Group.fromGroupName).                              *)
(*                                                                         *)
(* Strings are sequences of symbols.  A symbol is either a separator       *)
(* ("/" or ":") or a run of non-separator characters ("admins", "iam").    *)
(* The code only ever inspects strings at separators, so a run behaves as  *)
(* one character.  A value that may be a deferred expression (a token) is  *)
(* a record [deferred, text] where text is what the value resolves to.     *)
(***************************************************************************)
EXTENDS FiniteSets, Integers, Sequences, TLC

\* ------------------------------------------------------------------ bounds
\* Number of distinct managed-policy references a caller may hold.
NumPolicies == 12
\* Number of calls made on the group after it was constructed or imported.
MaxCalls == 3
\* Longest path / name / resource name, in symbols.
MaxStrLen == 3
\* Inline policies declared outside the group.
NumExternalPolicies == 2

\* ------------------------------------------------------------- strings
Slash == "/"
Colon == ":"

\* symbols a path or a group name is made of
NameSyms == {"/", "admins", "NetAdmin"}

StrOver(syms, n) == UNION {[1..k -> syms] : k \in 0..n}

Names == StrOver(NameSyms, MaxStrLen)

\* an optional string argument: undefined, or a string
Undefined == [defined |-> FALSE, val |-> <<>>]
Some(s) == [defined |-> TRUE, val |-> s]

\* a possibly deferred string value
Val(text, deferred) == [deferred |-> deferred, text |-> text]
NoVal == Val(<<>>, FALSE)

\* String.prototype.charAt: the character at a 0-based index, or ''
charAt(s, i) == IF i + 1 \in 1..Len(s) THEN <<s[i + 1]>> ELSE <<>>

\* String.prototype.substr(start): the rest of the string from a 0-based index
substr(s, start) == SubSeq(s, start + 1, Len(s))

\* truthiness of an optional string: undefined and '' are falsy
Truthy(opt) == opt.defined /\ opt.val # <<>>

\* index of the first occurrence of sep in s, 0 when there is none
RECURSIVE IndexFrom(_, _, _)
IndexFrom(s, sep, i) ==
  IF i > Len(s) THEN 0
  ELSE IF s[i] = sep THEN i
  ELSE IndexFrom(s, sep, i + 1)

IndexOf(s, sep) == IndexFrom(s, sep, 1)

\* s split at every sep, like String.prototype.split
RECURSIVE SplitOn(_, _)
SplitOn(s, sep) ==
  LET i == IndexOf(s, sep)
  IN IF i = 0 THEN <<s>>
     ELSE <<SubSeq(s, 1, i - 1)>> \o SplitOn(SubSeq(s, i + 1, Len(s)), sep)

\* the pieces joined back with sep between them
RECURSIVE JoinWith(_, _)
JoinWith(parts, sep) ==
  IF Len(parts) = 0 THEN <<>>
  ELSE IF Len(parts) = 1 THEN parts[1]
  ELSE parts[1] \o <<sep>> \o JoinWith(Tail(parts), sep)

\* ------------------------------------------------- ARN service (core)
\* The stack a scope belongs to.  In an environment-agnostic stack the
\* account is a deferred expression; text is what it resolves to on deployment.
Accounts == {"111", "222"}
Stacks == [account : Accounts, region : {"us-east-1"}, deferred : BOOLEAN]

\* Stack.formatArn: arn:<partition>:<service>:<region>:<account>:<resource>/<resourceName>
\* with the region and account of the stack where the components give none.
\* The result is deferred when anything it is built from is.
FormatArn(stack, c) ==
  LET region == IF c.region.defined THEN c.region.val ELSE <<stack.region>>
  IN Val(<<"arn", Colon, "aws", Colon, c.service, Colon>> \o region
           \o <<Colon, stack.account, Colon, c.resource, Slash>> \o c.resourceName.text,
         stack.deferred \/ c.resourceName.deferred)

\* Stack.splitArn(arn, ArnFormat.SLASH_RESOURCE_NAME).
\* A literal ARN is parsed: everything after the resource type, embedded "/"
\* included, is the resource name.  A deferred ARN cannot be parsed; its
\* components are expressions selecting a piece of the split value, and the
\* resource name selects the piece after the first "/" only.
SplitArn(arn) ==
  LET parts == SplitOn(arn.text, Colon)
      resourcePart == JoinWith(SubSeq(parts, 6, Len(parts)), Colon)
      i == IndexOf(resourcePart, Slash)
      pieces == SplitOn(parts[6], Slash)
  IN [ partition |-> Val(parts[2], arn.deferred),
       service |-> Val(parts[3], arn.deferred),
       region |-> Val(parts[4], arn.deferred),
       account |-> Val(parts[5], arn.deferred),
       resource |-> Val(IF arn.deferred THEN pieces[1]
                        ELSE IF i = 0 THEN resourcePart
                        ELSE SubSeq(resourcePart, 1, i - 1), arn.deferred),
       resourceName |-> Val(IF arn.deferred THEN pieces[2]
                            ELSE IF i = 0 THEN <<>>
                            ELSE SubSeq(resourcePart, i + 1, Len(resourcePart)),
                            arn.deferred) ]

\* ------------------------------------------------------ Identity Resolver
\* Group.fromGroupArn with the ARN's account dropped: the imported group
\* keeps the principalAccount GroupBase gives it, the account of its stack.
fromGroupArn_stackAccount(stack, groupArn) ==
  LET arnComponents == SplitArn(groupArn)
  IN [ groupName |-> arnComponents.resourceName,
       groupArn |-> groupArn,
       principalAccount |-> Val(<<stack.account>>, stack.deferred) ]

\* Group.fromGroupArn: the fields of the Import object
fromGroupArn(stack, groupArn) ==
  LET arnComponents == SplitArn(groupArn)
  IN [ groupName |-> arnComponents.resourceName,
       groupArn |-> groupArn,
       principalAccount |-> arnComponents.account ]

\* Group.fromGroupName without region: '', so that formatArn fills in the
\* region of the stack.
fromGroupName_stackRegion(stack, name) ==
  LET arn == FormatArn(stack, [ service |-> "iam", region |-> Undefined,
                                resource |-> "group", resourceName |-> name ])
  IN fromGroupArn(stack, arn)

\* Group.fromGroupName
fromGroupName(stack, name) ==
  LET arn == FormatArn(stack, [ service |-> "iam", region |-> Some(<<>>),
                                resource |-> "group", resourceName |-> name ])
  IN fromGroupArn(stack, arn)

\* Resource.physicalName: the name given, or a name generated on deployment
PhysicalName(props) ==
  IF props.groupName.defined THEN props.groupName.val ELSE <<"GENERATED">>

\* The resourceName template literal of the constructor with the leading
\* character of the path always dropped.
GroupArnResourceName_alwaysStrip(path, physicalName) ==
  (IF Truthy(path) THEN substr(path.val, 1) ELSE <<>>) \o physicalName

\* `${props.path ? props.path.substr(props.path.charAt(0) === '/' ? 1 : 0) : ''}${this.physicalName}`
GroupArnResourceName(path, physicalName) ==
  (IF Truthy(path)
     THEN substr(path.val, IF charAt(path.val, 0) = <<Slash>> THEN 1 ELSE 0)
     ELSE <<>>) \o physicalName

\* the components the constructor hands to getResourceArnAttribute
GroupArnComponents(props, physicalName) ==
  [ region |-> Some(<<>>),
    service |-> "iam",
    resource |-> "group",
    resourceName |-> Val(GroupArnResourceName(props.path, physicalName), FALSE) ]

\* ------------------------------------------------ Policy Attachment Ledger
\* managed-policy references (IManagedPolicy objects, compared by identity)
Policies == 1..NumPolicies

\* IManagedPolicy.managedPolicyArn: two references may name the same policy
managedPolicyArn(p) == <<"policy", (p + 1) \div 2>>

\* the quota named in the capacity warning
MaxManagedPolicies == 10

\* inline Policy objects: those declared outside the group, and the default
\* policies a group creates for itself
ExternalPolicies == 1..NumExternalPolicies
InlinePolicies == 1..(NumExternalPolicies + MaxCalls + 1)
Statements == {"s1", "s2"}

\* The mutable part of a group and of the Policy objects it touches is a
\* record h with the fields
\*   managedPolicies   Group.managedPolicies
\*   warnings          the warnings annotated on the group (the count each reports)
\*   attachedPolicies  GroupBase.attachedPolicies
\*   defaultPolicy     GroupBase.defaultPolicy: {} when undefined, else {policy}
\*   policies          the Policy objects that exist
\*   policyStatements  the statements of each Policy
\*   policyGroups      whether each Policy was told it is attached to the group

\* Group.managedPoliciesExceededWarning warning at the quota already
managedPoliciesExceededWarning_atQuota(h) ==
  IF Len(h.managedPolicies) >= MaxManagedPolicies
    THEN [h EXCEPT !.warnings = Append(@, Len(h.managedPolicies))]
    ELSE h

\* Group.managedPoliciesExceededWarning
managedPoliciesExceededWarning(h) ==
  IF Len(h.managedPolicies) > MaxManagedPolicies
    THEN [h EXCEPT !.warnings = Append(@, Len(h.managedPolicies))]
    ELSE h

\* Array.prototype.find(mp => mp === policy) is truthy
Finds(mps, policy) == \E i \in 1..Len(mps) : mps[i] = policy

\* Group.addManagedPolicy
Group_addManagedPolicy(h, policy) ==
  IF Finds(h.managedPolicies, policy) THEN h
  ELSE managedPoliciesExceededWarning(
         [h EXCEPT !.managedPolicies = Append(@, policy)])

\* GroupBase.addManagedPolicy recording the policy as Group.addManagedPolicy does
GroupBase_addManagedPolicy_records(h, policy) == Group_addManagedPolicy(h, policy)

\* GroupBase.addManagedPolicy: drop
GroupBase_addManagedPolicy(h, policy) == h

\* AttachedPolicies.attach: a policy attached twice is recorded once
AttachedPolicies_attach(h, policy) ==
  [h EXCEPT !.attachedPolicies = @ \cup {policy}]

\* Policy.attachToGroup
Policy_attachToGroup(h, policy) ==
  [h EXCEPT !.policyGroups[policy] = TRUE]

\* Policy.addStatements
Policy_addStatements(h, policy, statement) ==
  [h EXCEPT !.policyStatements[policy] = Append(@, statement)]

\* GroupBase.attachInlinePolicy
GroupBase_attachInlinePolicy(h, policy) ==
  Policy_attachToGroup(AttachedPolicies_attach(h, policy), policy)

\* new Policy(this, 'DefaultPolicy'): a fresh Policy object
NewPolicy(h) ==
  [ heap |-> [h EXCEPT !.policies = @ \cup {NumExternalPolicies + Cardinality(h.policies \ ExternalPolicies) + 1}],
    policy |-> NumExternalPolicies + Cardinality(h.policies \ ExternalPolicies) + 1 ]

\* the creation branch of addToPrincipalPolicy going through attachInlinePolicy
CreateDefaultPolicy_viaAttachInlinePolicy(h) ==
  LET n == NewPolicy(h)
  IN GroupBase_attachInlinePolicy([n.heap EXCEPT !.defaultPolicy = {n.policy}], n.policy)

\* the body of `if (!this.defaultPolicy) { ... }`
CreateDefaultPolicy(h) ==
  LET n == NewPolicy(h)
  IN Policy_attachToGroup([n.heap EXCEPT !.defaultPolicy = {n.policy}], n.policy)

\* `!this.defaultPolicy` always true: a default policy is created on every call
NeedsDefaultPolicy_always(h) == TRUE

\* `!this.defaultPolicy`
NeedsDefaultPolicy(h) == h.defaultPolicy = {}

\* GroupBase.addToPrincipalPolicy: the heap after the call and the value returned
GroupBase_addToPrincipalPolicy(h, statement) ==
  LET h1 == IF NeedsDefaultPolicy(h) THEN CreateDefaultPolicy(h) ELSE h
      d == CHOOSE p \in h1.defaultPolicy : TRUE
      h2 == Policy_addStatements(h1, d, statement)
  IN [ heap |-> h2,
       result |-> [ statementAdded |-> TRUE, policyDependable |-> h2.defaultPolicy ] ]

\* ------------------------------------------- Deferred Attribute Producer
\* Lazy.list(producer, { omitEmpty }): the produced list, or nothing for an
\* empty list when omitEmpty is set
LazyList(produced, omitEmpty) ==
  IF omitEmpty /\ produced = <<>> THEN Undefined ELSE Some(produced)

\* produce: () => this.managedPolicies.map(p => p.managedPolicyArn)
produce(mps) == [i \in 1..Len(mps) |-> managedPolicyArn(mps[i])]

\* managedPolicyArns computed from the list the constructor was given instead
\* of the ledger: ctorBatch is props.managedPolicies, ledger is
\* this.managedPolicies when the value is resolved
ManagedPolicyArns_eager(ctorBatch, ledger) == LazyList(produce(ctorBatch), TRUE)

\* managedPolicyArns: Lazy.list({ produce: ... }, { omitEmpty: true }), resolved
ManagedPolicyArns(ctorBatch, ledger) == LazyList(produce(ledger), TRUE)

\* ------------------------------------------------------------- state
VARIABLES
  kind,              \* "none" before the construct exists, then "owned" (new Group) or "imported"
  env,               \* the stack of the scope the construct was created in
  props,             \* the GroupProps given to the constructor
  importArg,         \* the groupArn / groupName given to fromGroupArn / fromGroupName
  physicalName,      \* Resource.physicalName
  groupName,         \* IGroup.groupName
  groupArn,          \* IGroup.groupArn
  principalAccount,  \* GroupBase.principalAccount
  arnComponents,     \* the components given to getResourceArnAttribute
  cfnGroup,          \* the CfnGroup resource declaration
  managedPolicies,   \* Group.managedPolicies
  warnings,          \* warnings annotated on the group
  attachedPolicies,  \* GroupBase.attachedPolicies
  defaultPolicy,     \* GroupBase.defaultPolicy
  policies,          \* the Policy objects that exist
  policyStatements,  \* statements of each Policy
  policyGroups,      \* Policy.groups contains this group
  template,          \* the emitted template
  lastCall,          \* the call made last, and what it returned
  calls              \* number of calls made on the group

identityVars == <<kind, env, props, importArg, physicalName, groupName, groupArn,
                  principalAccount, arnComponents, cfnGroup>>
heapVars == <<managedPolicies, warnings, attachedPolicies, defaultPolicy, policies,
              policyStatements, policyGroups>>
vars == <<identityVars, heapVars, template, lastCall, calls>>

Heap ==
  [ managedPolicies |-> managedPolicies, warnings |-> warnings,
    attachedPolicies |-> attachedPolicies, defaultPolicy |-> defaultPolicy,
    policies |-> policies, policyStatements |-> policyStatements,
    policyGroups |-> policyGroups ]

SetHeap(h) ==
  /\ managedPolicies' = h.managedPolicies
  /\ warnings' = h.warnings
  /\ attachedPolicies' = h.attachedPolicies
  /\ defaultPolicy' = h.defaultPolicy
  /\ policies' = h.policies
  /\ policyStatements' = h.policyStatements
  /\ policyGroups' = h.policyGroups

NoProps == [groupName |-> Undefined, managedPolicies |-> <<>>, path |-> Undefined]
NoComponents == [region |-> Undefined, service |-> "", resource |-> "", resourceName |-> NoVal]
NoCfnGroup == [declared |-> FALSE, groupName |-> Undefined, path |-> Undefined]
NoResult == [statementAdded |-> FALSE, policyDependable |-> {}]
NoTemplate == [emitted |-> FALSE, resources |-> {}]
Call(op, policy, statement, result) ==
  [op |-> op, policy |-> policy, statement |-> statement, result |-> result]

Init ==
  /\ kind = "none"
  /\ env = CHOOSE st \in Stacks : TRUE
  /\ props = NoProps
  /\ importArg = NoVal
  /\ physicalName = <<>>
  /\ groupName = NoVal
  /\ groupArn = NoVal
  /\ principalAccount = NoVal
  /\ arnComponents = NoComponents
  /\ cfnGroup = NoCfnGroup
  /\ managedPolicies = <<>>
  /\ warnings = <<>>
  /\ attachedPolicies = {}
  /\ defaultPolicy = {}
  /\ policies = ExternalPolicies
  /\ policyStatements = [p \in InlinePolicies |-> <<>>]
  /\ policyGroups = [p \in InlinePolicies |-> FALSE]
  /\ template = NoTemplate
  /\ lastCall = Call("none", 0, "", NoResult)
  /\ calls = 0

\* --------------------------------------------------------- construction
\* the Group constructor's effect on the ledger: push(...props.managedPolicies || [])
\* and, last, managedPoliciesExceededWarning()
Group_constructor(h, p) ==
  managedPoliciesExceededWarning([h EXCEPT !.managedPolicies = @ \o p.managedPolicies])

\* new Group(scope, id, p) in a scope of stack st
NewGroup(st, p) ==
  /\ kind = "none"
  /\ kind' = "owned"
  /\ env' = st
  /\ props' = p
  /\ importArg' = importArg
  /\ physicalName' = PhysicalName(p)
  /\ cfnGroup' = [declared |-> TRUE, groupName |-> p.groupName, path |-> p.path]
  /\ groupName' = Val(PhysicalName(p), TRUE)
  /\ arnComponents' = GroupArnComponents(p, PhysicalName(p))
  /\ groupArn' = Val(FormatArn(st, GroupArnComponents(p, PhysicalName(p))).text, TRUE)
  /\ principalAccount' = Val(<<st.account>>, st.deferred)
  /\ SetHeap(Group_constructor(Heap, p))
  /\ lastCall' = Call("new Group", 0, "", NoResult)
  /\ UNCHANGED <<template, calls>>

\* the Import object of fromGroupArn / fromGroupName: a GroupBase with the
\* three fields overridden, and no CfnGroup
NewImport(st, arg, id, op) ==
  /\ kind = "none"
  /\ kind' = "imported"
  /\ env' = st
  /\ importArg' = arg
  /\ groupName' = id.groupName
  /\ groupArn' = id.groupArn
  /\ principalAccount' = id.principalAccount
  /\ lastCall' = Call(op, 0, "", NoResult)
  /\ UNCHANGED <<props, physicalName, arnComponents, cfnGroup, heapVars, template, calls>>

\* Group.fromGroupArn(scope, id, arn)
FromGroupArn(st, arn) == NewImport(st, arn, fromGroupArn(st, arn), "fromGroupArn")

\* Group.fromGroupName(scope, id, name)
FromGroupName(st, name) == NewImport(st, name, fromGroupName(st, name), "fromGroupName")

\* ------------------------------------------------------------ operations
\* calls are made during the declaration phase, before the template is emitted
Declaring == kind # "none" /\ ~template.emitted /\ calls < MaxCalls

\* group.addManagedPolicy(policy): Group overrides GroupBase's method
AddManagedPolicy(policy) ==
  /\ Declaring
  /\ SetHeap(IF kind = "owned" THEN Group_addManagedPolicy(Heap, policy)
             ELSE GroupBase_addManagedPolicy(Heap, policy))
  /\ lastCall' = Call("addManagedPolicy", policy, "", NoResult)
  /\ calls' = calls + 1
  /\ UNCHANGED <<identityVars, template>>

\* group.attachInlinePolicy(policy)
AttachInlinePolicy(policy) ==
  /\ Declaring
  /\ policy \in policies
  /\ SetHeap(GroupBase_attachInlinePolicy(Heap, policy))
  /\ lastCall' = Call("attachInlinePolicy", policy, "", NoResult)
  /\ calls' = calls + 1
  /\ UNCHANGED <<identityVars, template>>

\* group.addToPrincipalPolicy(statement)
AddToPrincipalPolicy(statement) ==
  /\ Declaring
  /\ SetHeap(GroupBase_addToPrincipalPolicy(Heap, statement).heap)
  /\ lastCall' = Call("addToPrincipalPolicy", 0, statement,
                      GroupBase_addToPrincipalPolicy(Heap, statement).result)
  /\ calls' = calls + 1
  /\ UNCHANGED <<identityVars, template>>

\* the AWS::IAM::Group resource a CfnGroup renders to: a property that
\* resolves to nothing is absent
GroupResource ==
  LET arns == ManagedPolicyArns(props.managedPolicies, managedPolicies)
      keys == (IF cfnGroup.groupName.defined THEN {"GroupName"} ELSE {})
              \cup (IF cfnGroup.path.defined THEN {"Path"} ELSE {})
              \cup (IF arns.defined THEN {"ManagedPolicyArns"} ELSE {})
  IN [ k \in keys |-> CASE k = "GroupName" -> cfnGroup.groupName.val
                        [] k = "Path" -> cfnGroup.path.val
                        [] k = "ManagedPolicyArns" -> arns.val ]

\* the emission pass: every declared resource is rendered, lazy values resolved
Synthesize ==
  /\ kind # "none"
  /\ ~template.emitted
  /\ template' = [emitted |-> TRUE,
                  resources |-> IF cfnGroup.declared THEN {GroupResource} ELSE {}]
  /\ lastCall' = Call("synth", 0, "", NoResult)
  /\ UNCHANGED <<identityVars, heapVars, calls>>

\* ------------------------------------------------------- specifications
DefaultStack == [account |-> "111", region |-> "us-east-1", deferred |-> FALSE]

Prefix(k) == [i \in 1..k |-> i]
\* initial batches: k distinct policies, and the same with the last one
\* repeating the first
Batches == {Prefix(k) : k \in 0..NumPolicies}
           \cup {[i \in 1..k |-> IF i = k THEN 1 ELSE i] : k \in 2..NumPolicies}

\* Spec: an owned group and its managed policies, up to emission
NewGroupWithPolicies ==
  \E b \in Batches :
    NewGroup(DefaultStack, [groupName |-> Some(<<"NetAdmin">>), managedPolicies |-> b,
                            path |-> Undefined])

AddAnyManagedPolicy == \E p \in Policies : AddManagedPolicy(p)

Next == NewGroupWithPolicies \/ AddAnyManagedPolicy \/ Synthesize

Spec == Init /\ [][Next]_vars

\* SpecInline: an owned or an imported group and its inline policies
ArnText(account, resourceName) ==
  <<"arn", Colon, "aws", Colon, "iam", Colon, Colon, account, Colon, "group", Slash>>
    \o resourceName

NewGroupPlain ==
  \E b \in {Prefix(0), Prefix(1)} :
    NewGroup(DefaultStack, [groupName |-> Undefined, managedPolicies |-> b,
                            path |-> Undefined])

ImportPlain ==
  \/ FromGroupArn(DefaultStack, Val(ArnText("222", <<"admins", Slash, "NetAdmin">>), FALSE))
  \/ FromGroupName(DefaultStack, Val(<<"NetAdmin">>, FALSE))

AttachAnyInlinePolicy == \E p \in InlinePolicies : AttachInlinePolicy(p)

AddAnyStatement == \E s \in Statements : AddToPrincipalPolicy(s)

NextInline ==
  \/ NewGroupPlain
  \/ ImportPlain
  \/ AddAnyManagedPolicy
  \/ AttachAnyInlinePolicy
  \/ AddAnyStatement
  \/ Synthesize

SpecInline == Init /\ [][NextInline]_vars

\* SpecIdentity: construction and import over every stack, path, name and ARN
ArnInputs == {Val(ArnText(a, rn), d) : a \in Accounts, rn \in Names, d \in BOOLEAN}
NameInputs == {Val(n, d) : n \in Names, d \in BOOLEAN}
OptNames == {Undefined} \cup {Some(n) : n \in Names}

NewGroupAt ==
  \E st \in Stacks, path \in OptNames, name \in {Undefined, Some(<<"NetAdmin">>)} :
    NewGroup(st, [groupName |-> name, managedPolicies |-> <<>>, path |-> path])

ImportByArn == \E st \in Stacks, arn \in ArnInputs : FromGroupArn(st, arn)

ImportByName == \E st \in Stacks, name \in NameInputs : FromGroupName(st, name)

NextIdentity == NewGroupAt \/ ImportByArn \/ ImportByName

SpecIdentity == Init /\ [][NextIdentity]_vars

\* ----------------------------------------------------------- properties
Range(seq) == {seq[i] : i \in 1..Len(seq)}
Count(seq, x) == Cardinality({i \in 1..Len(seq) : seq[i] = x})

\* a step that is a call of op on the group
CallStep(op) == calls' = calls + 1 /\ lastCall'.op = op

\* C1: the managedPolicies sequence of an owned Group never contains the same
\* policy reference twice, whatever batch it was constructed with and whatever
\* addManagedPolicy calls followed.
C1_ManagedPoliciesDistinct ==
  kind = "owned" =>
    \A i, j \in 1..Len(managedPolicies) :
      i # j => managedPolicies[i] # managedPolicies[j]

\* C2: addManagedPolicy(P) on an owned Group leaves the sequence and the
\* warnings unchanged when P is present, appends P at the end keeping the
\* existing entries in order when P is absent, and so a policy added via
\* addManagedPolicy appears exactly once.
C2_AddManagedPolicyIdempotent ==
  [][ (kind = "owned" /\ CallStep("addManagedPolicy")) =>
        /\ lastCall'.policy \in Range(managedPolicies) =>
             managedPolicies' = managedPolicies /\ warnings' = warnings
        /\ lastCall'.policy \notin Range(managedPolicies) =>
             managedPolicies' = Append(managedPolicies, lastCall'.policy)
        /\ Count(managedPolicies', lastCall'.policy) = 1 ]_vars

\* The step-wise part of C2 alone: unchanged when present, appended when absent.
AddManagedPolicyStepwise ==
  [][ (kind = "owned" /\ CallStep("addManagedPolicy")) =>
        /\ lastCall'.policy \in Range(managedPolicies) =>
             managedPolicies' = managedPolicies /\ warnings' = warnings
        /\ lastCall'.policy \notin Range(managedPolicies) =>
             managedPolicies' = Append(managedPolicies, lastCall'.policy) ]_vars

\* C3: on an imported group addManagedPolicy changes nothing (no field of the
\* group, no policy, no warning, whatever the state before it), and an
\* imported group never has a resource declaration, declared or emitted.
C3_ImportedAddManagedPolicyNoOp ==
  /\ [](kind = "imported" => ~cfnGroup.declared /\ template.resources = {})
  /\ [][ (kind = "imported" /\ CallStep("addManagedPolicy")) =>
           UNCHANGED <<identityVars, heapVars, template>> ]_vars

C3_Witness ==
  /\ kind = "imported"
  /\ lastCall.op = "addManagedPolicy"
  /\ defaultPolicy # {}
  /\ attachedPolicies # {}
  /\ managedPolicies = <<>>
  /\ warnings = <<>>

\* C4: every addToPrincipalPolicy call returns statementAdded = true with the
\* default policy as dependency; the first call creates the default policy,
\* every later call keeps that same policy; the statement is appended to it;
\* the group never creates a second policy and never replaces the first.
C4_DefaultPolicyCreatedOnce ==
  /\ [](Cardinality(policies \ ExternalPolicies) <= 1)
  /\ [][defaultPolicy # {} => defaultPolicy' = defaultPolicy]_vars
  /\ [][ CallStep("addToPrincipalPolicy") =>
           /\ lastCall'.result.statementAdded
           /\ lastCall'.result.policyDependable = defaultPolicy'
           /\ Cardinality(defaultPolicy') = 1
           /\ IF defaultPolicy = {}
                THEN defaultPolicy' \cap policies = {} /\ policies' = policies \cup defaultPolicy'
                ELSE defaultPolicy' = defaultPolicy /\ policies' = policies
           /\ \A d \in defaultPolicy' :
                policyStatements'[d] = Append(policyStatements[d], lastCall'.statement) ]_vars

C4_Witness ==
  /\ lastCall.op = "addToPrincipalPolicy"
  /\ lastCall.result.statementAdded
  /\ lastCall.result.policyDependable = defaultPolicy
  /\ \E d \in defaultPolicy : Len(policyStatements[d]) >= 2

\* C5: construction emits exactly one warning when the initial batch has 11
\* or more policies and none otherwise; an addManagedPolicy call that appends
\* emits exactly one warning iff the count then exceeds 10, and a call that
\* appends nothing emits none; the operation and the emission go through.
C5_CapacityWarning ==
  [][ /\ (kind = "none" /\ kind' = "owned") =>
           /\ Len(warnings') = (IF Len(props'.managedPolicies) >= 11 THEN 1 ELSE 0)
           /\ managedPolicies' = props'.managedPolicies
           /\ cfnGroup'.declared
      /\ (kind = "owned" /\ CallStep("addManagedPolicy")) =>
           IF Len(managedPolicies') = Len(managedPolicies) + 1
             THEN /\ Len(warnings') - Len(warnings) = (IF Len(managedPolicies') > 10 THEN 1 ELSE 0)
                  /\ SubSeq(warnings', 1, Len(warnings)) = warnings
             ELSE warnings' = warnings /\ managedPolicies' = managedPolicies
      /\ (kind = "owned" /\ ~template.emitted /\ lastCall'.op = "synth") =>
           /\ template'.emitted
           /\ Cardinality(template'.resources) = 1 ]_vars

C5_Witness ==
  /\ kind = "owned"
  /\ lastCall.op = "new Group"
  /\ Len(props.managedPolicies) = 11
  /\ Len(warnings) = 1

\* C6: the emitted ManagedPolicyArns is the list of managedPolicyArn values of
\* managedPolicies as it stands when the template is emitted, in order, and
\* the field is absent when that sequence is empty.
C6_LazyManagedPolicyArns ==
  [][ (kind = "owned" /\ ~template.emitted /\ template'.emitted) =>
        \E r \in template'.resources :
          /\ template'.resources = {r}
          /\ IF managedPolicies = <<>>
               THEN "ManagedPolicyArns" \notin DOMAIN r
               ELSE /\ "ManagedPolicyArns" \in DOMAIN r
                    /\ r["ManagedPolicyArns"] =
                         [i \in 1..Len(managedPolicies) |-> managedPolicyArn(managedPolicies[i])] ]_vars

C6_Witness ==
  /\ kind = "owned"
  /\ template.emitted
  /\ Len(managedPolicies) > Len(props.managedPolicies)
  /\ \E r \in template.resources :
       /\ "ManagedPolicyArns" \in DOMAIN r
       /\ Len(r["ManagedPolicyArns"]) = Len(managedPolicies)

C8_OwnedArnResourceName ==
  kind = "owned" =>
    LET p == props.path
        n == physicalName
        rn == arnComponents.resourceName.text
    IN /\ arnComponents.region = Some(<<>>)
       /\ SplitOn(groupArn.text, Colon)[4] = <<>>
       /\ groupArn.text = ArnText(env.account, rn)
       /\ (~p.defined \/ p.val = <<>>) => rn = n
       /\ (p.defined /\ p.val # <<>> /\ p.val[1] = Slash) => rn = Tail(p.val) \o n
       /\ (p.defined /\ p.val # <<>> /\ p.val[1] # Slash) => rn = p.val \o n
       /\ (p = Some(<<Slash, "admins", Slash>>) /\ n = <<"NetAdmin">>) =>
            rn = <<"admins", Slash, "NetAdmin">>

C8_Witness ==
  /\ kind = "owned"
  /\ props.path = Some(<<Slash, "admins", Slash>>)
  /\ physicalName = <<"NetAdmin">>
  /\ arnComponents.resourceName.text = <<"admins", Slash, "NetAdmin">>

\* C9: fromGroupName(n) has the groupArn, groupName and principalAccount of
\* fromGroupArn(format(service iam, region '', resource group, resourceName n)),
\* that ARN being arn:aws:iam::<account>:group/<n>, and its groupName is n
\* when n contains no "/".
C9_ImportByNameViaArn ==
  (kind = "imported" /\ lastCall.op = "fromGroupName") =>
    LET n == importArg
        viaArn == fromGroupArn(env, FormatArn(env, [ service |-> "iam", region |-> Some(<<>>),
                                                     resource |-> "group", resourceName |-> n ]))
    IN /\ groupArn = viaArn.groupArn
       /\ groupName = viaArn.groupName
       /\ principalAccount = viaArn.principalAccount
       /\ groupArn.text = ArnText(env.account, n.text)
       /\ Slash \notin Range(n.text) => groupName.text = n.text

C9_Witness ==
  /\ kind = "imported"
  /\ lastCall.op = "fromGroupName"
  /\ groupArn.deferred
  /\ importArg.text = <<"NetAdmin">>
  /\ groupName.text = <<"NetAdmin">>

\* C10: for fromGroupArn(a), groupArn is a, principalAccount is the account
\* of a, and groupName is the whole resource name after "group/" when a is a
\* literal, and the first path segment only when a is deferred and the
\* resource name contains "/".
C10_ImportByArn ==
  (kind = "imported" /\ lastCall.op = "fromGroupArn") =>
    \A acct \in Accounts, rn \in Names :
      importArg.text = ArnText(acct, rn) =>
        /\ groupArn = importArg
        /\ principalAccount.text = <<acct>>
        /\ ~importArg.deferred => groupName.text = rn
        /\ (importArg.deferred /\ Slash \in Range(rn)) =>
             groupName.text = SubSeq(rn, 1, IndexOf(rn, Slash) - 1)

C10_Witness ==
  /\ kind = "imported"
  /\ lastCall.op = "fromGroupArn"
  /\ importArg.deferred
  /\ importArg.text = ArnText("222", <<"admins", Slash, "NetAdmin">>)
  /\ groupName.text = <<"admins">>
  /\ principalAccount.text = <<"222">>

====
